---- MODULE Spec2Model ----
(***************************************************************************)
(* A model of ROW (src/src/buffer/out/Row.cpp): one line of a terminal     *)
(* screen buffer.  A ROW owns a glyph storage (_charRow), a run-length     *)
(* encoded attribute storage (_attrRow), its recorded width (_rowWidth)    *)
(* and its index (_id).  CharRow and ATTR_ROW are not part of Row.cpp;     *)
(* they are modelled from their interface contract.                        *)
(***************************************************************************)
EXTENDS Integers, Sequences, FiniteSets, TLC

VARIABLES id, rowWidth, charRow, attrRow, last

vars == <<id, rowWidth, charRow, attrRow, last>>

(* ------------------------------ bounds --------------------------------- *)

\* Largest row width (in columns) the model constructs or resizes to.
MaxWidth == 3

\* Widths handed to the constructor and to Resize: a row has at least one
\* column.
Widths == 1..MaxWidth

\* Row indices handed to the constructor and to SetId.
Ids == {0, 1}

\* TextAttribute values.
Attrs == {"A", "B"}

\* The glyph storage's empty default: a space, single width.
DefaultCell == [glyph |-> " ", dbcs |-> "Single"]

\* Contents of one column of the glyph storage: glyph and width class.
GlyphCells == {DefaultCell, [glyph |-> "W", dbcs |-> "Leading"]}

(* --------------------- CharRow (glyph storage) ------------------------- *)

\* CharRow(rowWidth, pParent): rowWidth empty columns.
CharRow_Construct(w) == [i \in 1..w |-> DefaultCell]

\* CharRow::size
CharRow_size(cr) == Len(cr)

\* CharRow::Reset: every column back to the empty default, size kept.
CharRow_Reset(cr) == [i \in 1..Len(cr) |-> DefaultCell]

\* CharRow::Resize (on success): old columns kept, new columns empty.
CharRow_Resize(cr, w) == [i \in 1..w |-> IF i <= Len(cr) THEN cr[i] ELSE DefaultCell]

\* CharRow::ClearCell: one column back to the empty default.
CharRow_ClearCell(cr, column) == [cr EXCEPT ![column + 1] = DefaultCell]

\* CharRow::GlyphAt / CharRow::DbcsAttrAt are bounds-checked per-column reads.
CharRow_InRange(cr, column) == column < Len(cr)
CharRow_GlyphAt(cr, column) == cr[column + 1].glyph
CharRow_DbcsAttrAt(cr, column) == cr[column + 1].dbcs

(* ------------------ ATTR_ROW (attribute run storage) ------------------- *)

RECURSIVE Unpack(_)
\* The per-column attributes a run list stands for.
Unpack(list) ==
    IF list = <<>> THEN <<>>
    ELSE [i \in 1..Head(list).length |-> Head(list).attr] \o Unpack(Tail(list))

RECURSIVE Pack(_)
\* The run list of a per-column attribute sequence (equal neighbours merged).
Pack(s) ==
    IF s = <<>> THEN <<>>
    ELSE LET rest == Pack(Tail(s))
         IN  IF rest # <<>> /\ Head(rest).attr = Head(s)
             THEN <<[attr |-> Head(s), length |-> Head(rest).length + 1]>> \o Tail(rest)
             ELSE <<[attr |-> Head(s), length |-> 1]>> \o rest

\* ATTR_ROW(cchRowWidth, attr): one run spanning the row.
AttrRow_Construct(w, attr) ==
    [list |-> <<[attr |-> attr, length |-> w]>>, cchRowWidth |-> w]

\* ATTR_ROW::Reset (on success): one run of attr spanning the current width.
AttrRow_Reset(ar, attr) == AttrRow_Construct(ar.cchRowWidth, attr)

\* ATTR_ROW::Resize (on success): growing extends the last run, shrinking
\* keeps the runs that cover the first w columns.
AttrRow_Resize(ar, w) ==
    IF w >= ar.cchRowWidth
    THEN [list |-> [ar.list EXCEPT ![Len(ar.list)].length = @ + (w - ar.cchRowWidth)],
          cchRowWidth |-> w]
    ELSE [list |-> Pack(SubSeq(Unpack(ar.list), 1, w)), cchRowWidth |-> w]

\* ATTR_ROW::SetAttrToEnd: attr from column iStart to the end of the row.
AttrRow_SetAttrToEnd(ar, iStart, attr) ==
    [list |-> Pack(SubSeq(Unpack(ar.list), 1, iStart)
                   \o [i \in 1..(ar.cchRowWidth - iStart) |-> attr]),
     cchRowWidth |-> ar.cchRowWidth]

RECURSIVE FindAttrIndex(_, _, _)
\* Random access: scan the runs from run k for the one covering `index`.
FindAttrIndex(list, k, index) ==
    IF index < list[k].length THEN k
    ELSE FindAttrIndex(list, k + 1, index - list[k].length)

\* ATTR_ROW::GetAttrByColumn is a bounds-checked per-column read.
AttrRow_InRange(ar, column) == column < ar.cchRowWidth
AttrRow_GetAttrByColumn(ar, column) == ar.list[FindAttrIndex(ar.list, 1, column)].attr

\* ATTR_ROW::const_iterator: a run and a position inside that run.
AttrRow_begin(ar) == [run |-> 1, pos |-> 0]
Iter_AtEnd(ar, it) == it.run > Len(ar.list)
Iter_Deref(ar, it) == ar.list[it.run].attr
\* operator++ on an iterator that is not at the end.
Iter_Increment(ar, it) ==
    IF it.pos + 1 < ar.list[it.run].length
    THEN [it EXCEPT !.pos = @ + 1]
    ELSE [run |-> it.run + 1, pos |-> 0]

(* ------------------------- results of a call --------------------------- *)

\* What the last call on the row was and what it gave back to its caller:
\* op/n1/n2/attr are the call and its arguments, status its outcome, cells
\* the OutputCells returned, oob whether a storage was read out of range,
\* calls the storage operations the call performed, in order.
Call(op, n1, n2, attr, status, cells, oob, calls) ==
    [op |-> op, n1 |-> n1, n2 |-> n2, attr |-> attr, status |-> status,
     cells |-> cells, oob |-> oob, calls |-> calls]

\* An OutputCell: glyph, width class and attribute of one column.
OutputCell(glyph, dbcs, attr) == [glyph |-> glyph, dbcs |-> dbcs, attr |-> attr]

\* Outcomes of an operation on an iterator that is at or past the end, which
\* the language leaves undefined: a checked build faults, an unchecked one
\* reads whatever lies there (the attribute Garbage).
UBs == {"fault", "read"}
Garbage == "?"

Result(status, cells, oob) == [status |-> status, cells |-> cells, oob |-> oob]

(* ------------------------------- ROW ----------------------------------- *)

\* ROW::size
size == rowWidth

\* ROW::at: glyph, width class, then attribute of the column; each read is
\* bounds-checked by its storage.
at(cr, ar, column) ==
    IF ~CharRow_InRange(cr, column) THEN Result("violation", <<>>, FALSE)
    ELSE IF ~AttrRow_InRange(ar, column) THEN Result("violation", <<>>, FALSE)
    ELSE Result("ok",
                <<OutputCell(CharRow_GlyphAt(cr, column),
                             CharRow_DbcsAttrAt(cr, column),
                             AttrRow_GetAttrByColumn(ar, column))>>,
                FALSE)

RECURSIVE Iter_Next(_, _, _, _)
\* std::next(it, n): n increments; stepping an iterator that is already at
\* the end is undefined.
Iter_Next(ar, it, n, ub) ==
    IF n = 0 THEN [it |-> it, fault |-> FALSE, oob |-> FALSE]
    ELSE IF Iter_AtEnd(ar, it)
         THEN [it |-> it, fault |-> ub = "fault", oob |-> ub # "fault"]
         ELSE Iter_Next(ar, Iter_Increment(ar, it), n - 1, ub)

RECURSIVE AsCellsLoop_NoAdvance(_, _, _, _, _, _, _, _, _)
\* The loop with ++it left out: every cell gets the attribute at startIndex.
AsCellsLoop_NoAdvance(cr, ar, startIndex, count, i, it, cells, oob, ub) ==
    IF i >= count THEN [status |-> "ok", cells |-> cells, oob |-> oob]
    ELSE LET index == startIndex + i
         IN  IF ~CharRow_InRange(cr, index) \/ Iter_AtEnd(ar, it)
             THEN [status |-> "violation", cells |-> <<>>, oob |-> oob]
             ELSE AsCellsLoop_NoAdvance(cr, ar, startIndex, count, i + 1, it,
                      Append(cells, [glyph |-> CharRow_GlyphAt(cr, index),
                                     dbcs |-> CharRow_DbcsAttrAt(cr, index),
                                     attr |-> Iter_Deref(ar, it)]),
                      oob, ub)

RECURSIVE AsCellsLoop(_, _, _, _, _, _, _, _, _)
\* The loop of ROW::AsCells(startIndex, count): column startIndex + i is read
\* from the glyph storage and paired with *it, then both i and it advance.
AsCellsLoop(cr, ar, startIndex, count, i, it, cells, oob, ub) ==
    IF i >= count THEN Result("ok", cells, oob)
    ELSE LET index == startIndex + i
         IN  IF ~CharRow_InRange(cr, index) THEN Result("violation", <<>>, oob)
             ELSE IF Iter_AtEnd(ar, it)
                  THEN IF ub = "fault" THEN Result("violation", <<>>, oob)
                       ELSE AsCellsLoop(cr, ar, startIndex, count, i + 1, it,
                                Append(cells, OutputCell(CharRow_GlyphAt(cr, index),
                                                         CharRow_DbcsAttrAt(cr, index), Garbage)),
                                TRUE, ub)
                  ELSE AsCellsLoop(cr, ar, startIndex, count, i + 1,
                                Iter_Increment(ar, it),
                                Append(cells, OutputCell(CharRow_GlyphAt(cr, index),
                                                         CharRow_DbcsAttrAt(cr, index),
                                                         Iter_Deref(ar, it))),
                                oob, ub)

\* ROW::AsCells(startIndex, count).  A negative count stands for the size_t
\* value 2^64 + count that size() - startIndex wraps to; it exceeds
\* vector::max_size, so reserve throws length_error.
AsCells(cr, ar, startIndex, count, ub) ==
    IF count < 0 THEN Result("length_error", <<>>, FALSE)
    ELSE LET nx == Iter_Next(ar, AttrRow_begin(ar), startIndex, ub)
         IN  IF nx.fault THEN Result("violation", <<>>, FALSE)
             ELSE AsCellsLoop(cr, ar, startIndex, count, 0, nx.it, <<>>, nx.oob, ub)

\* ROW::ROW(rowId, rowWidth, fillAttribute, pParent)
Init ==
    \E rowId \in Ids, w \in Widths, fillAttribute \in Attrs :
        /\ id = rowId
        /\ rowWidth = w
        /\ charRow = CharRow_Construct(w)
        /\ attrRow = AttrRow_Construct(w, fillAttribute)
        /\ last = Call("ROW", w, 0, fillAttribute, "ok", <<>>, FALSE, <<>>)

\* ROW::SetId
SetId(newId) ==
    /\ id' = newId
    /\ last' = Call("SetId", newId, 0, "", "ok", <<>>, FALSE, <<>>)
    /\ UNCHANGED <<rowWidth, charRow, attrRow>>

\* Reset with the attribute reset tried first: when it throws, false is
\* returned before the glyphs are cleared.
Reset_AttrFirst(Attr, attrOk) ==
    /\ charRow' = IF attrOk THEN CharRow_Reset(charRow) ELSE charRow
    /\ attrRow' = IF attrOk THEN AttrRow_Reset(attrRow, Attr) ELSE attrRow
    /\ last' = Call("Reset", 0, 0, Attr, IF attrOk THEN "true" ELSE "false", <<>>, FALSE,
                    IF attrOk THEN <<"attrRow.Reset", "charRow.Reset">>
                              ELSE <<"attrRow.Reset throws">>)
    /\ UNCHANGED <<id, rowWidth>>

\* ROW::Reset(Attr).  attrOk: whether _attrRow.Reset completes; when it
\* throws, the exception is caught and false is returned.
Reset(Attr, attrOk) ==
    /\ charRow' = CharRow_Reset(charRow)
    /\ attrRow' = IF attrOk THEN AttrRow_Reset(attrRow, Attr) ELSE attrRow
    /\ last' = Call("Reset", 0, 0, Attr, IF attrOk THEN "true" ELSE "false", <<>>, FALSE,
                    <<"charRow.Reset",
                      IF attrOk THEN "attrRow.Reset" ELSE "attrRow.Reset throws">>)
    /\ UNCHANGED <<id, rowWidth>>

\* Resize without RETURN_IF_FAILED: the result of _charRow.Resize is dropped.
Resize_IgnoresCharFailure(width, charOk, attrOk) ==
    /\ charRow' = IF charOk THEN CharRow_Resize(charRow, width) ELSE charRow
    /\ IF ~attrOk
       THEN /\ last' = Call("Resize", width, 0, "", "E_ATTR", <<>>, FALSE,
                            <<IF charOk THEN "charRow.Resize" ELSE "charRow.Resize fails",
                              "attrRow.Resize throws">>)
            /\ UNCHANGED <<id, rowWidth, attrRow>>
       ELSE /\ attrRow' = AttrRow_Resize(attrRow, width)
            /\ rowWidth' = width
            /\ last' = Call("Resize", width, 0, "", "S_OK", <<>>, FALSE,
                            <<IF charOk THEN "charRow.Resize" ELSE "charRow.Resize fails",
                              "attrRow.Resize">>)
            /\ UNCHANGED id

\* Resize with _rowWidth = width moved in front of the attribute resize.
Resize_WidthBeforeAttr(width, charOk, attrOk) ==
    IF ~charOk
    THEN /\ last' = Call("Resize", width, 0, "", "E_CHAR", <<>>, FALSE,
                        <<"charRow.Resize fails">>)
         /\ UNCHANGED <<id, rowWidth, charRow, attrRow>>
    ELSE /\ charRow' = CharRow_Resize(charRow, width)
         /\ rowWidth' = width
         /\ attrRow' = IF attrOk THEN AttrRow_Resize(attrRow, width) ELSE attrRow
         /\ last' = Call("Resize", width, 0, "", IF attrOk THEN "S_OK" ELSE "E_ATTR",
                         <<>>, FALSE,
                         <<"charRow.Resize",
                           IF attrOk THEN "attrRow.Resize" ELSE "attrRow.Resize throws">>)
         /\ UNCHANGED id

\* ROW::Resize(width).  charOk: whether _charRow.Resize returns success;
\* attrOk: whether _attrRow.Resize completes without throwing.
Resize(width, charOk, attrOk) ==
    IF ~charOk
    THEN /\ last' = Call("Resize", width, 0, "", "E_CHAR", <<>>, FALSE,
                        <<"charRow.Resize fails">>)
         /\ UNCHANGED <<id, rowWidth, charRow, attrRow>>
    ELSE /\ charRow' = CharRow_Resize(charRow, width)
         /\ IF ~attrOk
            THEN /\ last' = Call("Resize", width, 0, "", "E_ATTR", <<>>, FALSE,
                                 <<"charRow.Resize", "attrRow.Resize throws">>)
                 /\ UNCHANGED <<id, rowWidth, attrRow>>
            ELSE /\ attrRow' = AttrRow_Resize(attrRow, width)
                 /\ rowWidth' = width
                 /\ last' = Call("Resize", width, 0, "", "S_OK", <<>>, FALSE,
                                 <<"charRow.Resize", "attrRow.Resize">>)
                 /\ UNCHANGED id

\* ROW::ClearColumn(column)
ClearColumn(column) ==
    IF column >= CharRow_size(charRow)
    THEN /\ last' = Call("ClearColumn", column, 0, "", "E_INVALIDARG", <<>>, FALSE, <<>>)
         /\ UNCHANGED <<id, rowWidth, charRow, attrRow>>
    ELSE /\ charRow' = CharRow_ClearCell(charRow, column)
         /\ last' = Call("ClearColumn", column, 0, "", "ok", <<>>, FALSE, <<"charRow.ClearCell">>)
         /\ UNCHANGED <<id, rowWidth, attrRow>>

\* A call of ROW::at(column): the row is not changed.
CallAt(column) ==
    /\ LET r == at(charRow, attrRow, column)
       IN  last' = Call("at", column, 0, "", r.status, r.cells, r.oob, <<>>)
    /\ UNCHANGED <<id, rowWidth, charRow, attrRow>>

\* A call of ROW::AsCells(startIndex, count).
CallAsCells(startIndex, count, ub) ==
    /\ LET r == AsCells(charRow, attrRow, startIndex, count, ub)
       IN  last' = Call("AsCells", startIndex, count, "", r.status, r.cells, r.oob, <<>>)
    /\ UNCHANGED <<id, rowWidth, charRow, attrRow>>

\* A call of ROW::AsCells(startIndex): AsCells(startIndex, size() - startIndex).
CallAsCellsFrom(startIndex, ub) ==
    /\ LET r == AsCells(charRow, attrRow, startIndex, size - startIndex, ub)
       IN  last' = Call("AsCellsFrom", startIndex, 0, "", r.status, r.cells, r.oob, <<>>)
    /\ UNCHANGED <<id, rowWidth, charRow, attrRow>>

\* A call of ROW::AsCells(): AsCells(0, size()).
CallAsCellsAll(ub) ==
    /\ LET r == AsCells(charRow, attrRow, 0, size, ub)
       IN  last' = Call("AsCellsAll", 0, 0, "", r.status, r.cells, r.oob, <<>>)
    /\ UNCHANGED <<id, rowWidth, charRow, attrRow>>

\* The owner writes one column of the glyph storage through GetCharRow().
WriteGlyph(column, cell) ==
    /\ column < CharRow_size(charRow)
    /\ charRow' = [charRow EXCEPT ![column + 1] = cell]
    /\ last' = Call("GetCharRow", column, 0, "", "ok", <<>>, FALSE, <<>>)
    /\ UNCHANGED <<id, rowWidth, attrRow>>

\* The owner sets the attribute from a column on through GetAttrRow().
WriteAttr(column, attr) ==
    /\ column < attrRow.cchRowWidth
    /\ attrRow' = AttrRow_SetAttrToEnd(attrRow, column, attr)
    /\ last' = Call("GetAttrRow", column, 0, attr, "ok", <<>>, FALSE, <<>>)
    /\ UNCHANGED <<id, rowWidth, charRow>>

\* Arguments tried for a column, a start index or a count.
Columns == 0..(MaxWidth + 1)

\* The calls that return a value and leave the row as it was.
QueryOps == {"at", "AsCells", "AsCellsFrom", "AsCellsAll"}

\* A behaviour is followed up to its first query: a query does not change the
\* row, so whatever can follow it can also follow the state it was made in.
Ready == last.op \notin QueryOps

Next ==
    \/ \E newId \in Ids : Ready /\ SetId(newId)
    \/ \E Attr \in Attrs, attrOk \in BOOLEAN : Ready /\ Reset(Attr, attrOk)
    \/ \E width \in Widths, charOk \in BOOLEAN, attrOk \in BOOLEAN :
          Ready /\ Resize(width, charOk, attrOk)
    \/ \E column \in Columns : Ready /\ ClearColumn(column)
    \/ \E column \in Columns : Ready /\ CallAt(column)
    \/ \E startIndex \in Columns, count \in Columns, ub \in UBs :
          Ready /\ CallAsCells(startIndex, count, ub)
    \/ \E startIndex \in Columns, ub \in UBs : Ready /\ CallAsCellsFrom(startIndex, ub)
    \/ \E ub \in UBs : Ready /\ CallAsCellsAll(ub)
    \/ \E column \in Columns, cell \in GlyphCells : Ready /\ WriteGlyph(column, cell)
    \/ \E column \in Columns, attr \in Attrs : Ready /\ WriteAttr(column, attr)

Spec == Init /\ [][Next]_vars

(* ------------------------------ properties ----------------------------- *)

\* The three widths agree.
WidthInvariant ==
    /\ CharRow_size(charRow) = attrRow.cchRowWidth
    /\ attrRow.cchRowWidth = size

Range(f) == {f[i] : i \in DOMAIN f}

Failed(status) == status \in {"E_CHAR", "E_ATTR"}
Signalled(status) == status \in {"violation", "length_error"}

\* C1: after construction and after every Resize or Reset that reports
\* success, whatever calls (failed ones included) came before, the glyph
\* storage's width, the attribute storage's width and size() are equal.
C1_WidthsEqualAfterSuccess ==
    (\/ last.op = "ROW"
     \/ last.op = "Resize" /\ last.status = "S_OK"
     \/ last.op = "Reset" /\ last.status = "true")
    => WidthInvariant

\* C2: a Resize whose glyph storage resize fails returns that failure, never
\* attempts the attribute storage resize, and leaves the recorded width, the
\* glyph storage and the attribute storage as they were.
C2_ResizeFirstStepFailure ==
    [][(last'.op = "Resize" /\ last'.calls[1] = "charRow.Resize fails")
       => /\ last'.status = "E_CHAR"
          /\ last'.calls = <<"charRow.Resize fails">>
          /\ rowWidth' = rowWidth
          /\ charRow' = charRow
          /\ attrRow' = attrRow]_vars

\* A Resize to another width has failed in its first step on a row that
\* holds a glyph.
C2_Witness ==
    /\ last.op = "Resize"
    /\ last.calls = <<"charRow.Resize fails">>
    /\ last.n1 # rowWidth
    /\ \E i \in 1..Len(charRow) : charRow[i] # DefaultCell

\* C3: a Resize whose glyph storage resize succeeds and whose attribute
\* storage resize fails returns a failure value, keeps the old recorded width
\* and the old attribute storage, and leaves the glyph storage newWidth wide;
\* the recorded width changes only in a Resize both of whose steps succeeded.
C3_ResizeSecondStepFailure ==
    [][/\ (last'.op = "Resize" /\ last'.calls = <<"charRow.Resize", "attrRow.Resize throws">>)
          => /\ Failed(last'.status)
             /\ rowWidth' = rowWidth
             /\ CharRow_size(charRow') = last'.n1
             /\ attrRow' = attrRow
       /\ rowWidth' # rowWidth
          => /\ last'.op = "Resize"
             /\ last'.calls = <<"charRow.Resize", "attrRow.Resize">>
             /\ rowWidth' = last'.n1]_vars

\* A Resize to another width has failed in its second step.
C3_Witness ==
    /\ last.op = "Resize"
    /\ last.status = "E_ATTR"
    /\ last.n1 # rowWidth
    /\ CharRow_size(charRow) = last.n1
    /\ attrRow.cchRowWidth = rowWidth

\* C4: a Reset whose attribute storage reset fails returns false, has cleared
\* every column of the glyph storage to the empty default, and leaves the
\* attribute storage, the recorded width and the row index as they were.
C4_ResetAttributeFailure ==
    [][(last'.op = "Reset" /\ "attrRow.Reset throws" \in Range(last'.calls))
       => /\ last'.status = "false"
          /\ CharRow_size(charRow') = CharRow_size(charRow)
          /\ \A i \in 1..Len(charRow') : charRow'[i] = DefaultCell
          /\ attrRow' = attrRow
          /\ rowWidth' = rowWidth
          /\ id' = id]_vars

\* A Reset has failed and the row keeps its two or more attribute runs.
C4_Witness ==
    /\ last.op = "Reset"
    /\ last.status = "false"
    /\ Len(attrRow.list) >= 2
    /\ \A i \in 1..Len(charRow) : charRow[i] = DefaultCell

\* The cell a successful read of one column returns.
OneCell(glyph, dbcs, attr) == Result("ok", <<OutputCell(glyph, dbcs, attr)>>, FALSE)

\* C5: after a Reset(attr) that reports success, at(c) is the empty default
\* glyph with attribute attr for every column c in [0, size()).
C5_ResetUniform ==
    (last.op = "Reset" /\ last.status = "true")
    => \A c \in 0..(size - 1) :
          at(charRow, attrRow, c) = OneCell(DefaultCell.glyph, DefaultCell.dbcs, last.attr)

\* C5 on the rows whose three widths agree.
C5_ResetUniformOnConsistentRows ==
    (last.op = "Reset" /\ last.status = "true" /\ WidthInvariant)
    => \A c \in 0..(size - 1) :
          at(charRow, attrRow, c) = OneCell(DefaultCell.glyph, DefaultCell.dbcs, last.attr)

\* The cells AsCells(startIndex, count) must return: at(startIndex + i) for
\* every i < count.
CellsByAt(startIndex, count) ==
    [i \in 1..count |-> at(charRow, attrRow, startIndex + i - 1)]

\* The last call returned exactly the cells at() gives for its range.
ReturnedCellsOf(startIndex, count) ==
    /\ last.status = "ok"
    /\ ~last.oob
    /\ Len(last.cells) = count
    /\ \A i \in 1..count :
          CellsByAt(startIndex, count)[i] = Result("ok", <<last.cells[i]>>, FALSE)

\* C6: on a row whose three widths agree, AsCells(startIndex, count) with
\* startIndex + count <= size() returns exactly count cells, the i-th equal to
\* at(startIndex + i) in glyph, width class and attribute; AsCells(startIndex)
\* returns what AsCells(startIndex, size() - startIndex) returns and AsCells()
\* what AsCells(0, size()) returns.
C6_AsCellsAgreesWithAt ==
    WidthInvariant =>
       /\ (last.op = "AsCells" /\ last.n1 + last.n2 <= size)
          => ReturnedCellsOf(last.n1, last.n2)
       /\ (last.op = "AsCellsFrom" /\ last.n1 <= size)
          => ReturnedCellsOf(last.n1, size - last.n1)
       /\ last.op = "AsCellsAll"
          => ReturnedCellsOf(0, size)

\* AsCells has returned, from a start index past column 0, cells that lie in
\* different attribute runs and hold different glyphs.
C6_Witness ==
    /\ WidthInvariant
    /\ last.op = "AsCells"
    /\ last.n1 >= 1
    /\ last.n1 + last.n2 <= size
    /\ \E i, j \in 1..Len(last.cells) :
          /\ last.cells[i].attr # last.cells[j].attr
          /\ last.cells[i].glyph # last.cells[j].glyph

\* C7: at(column) with column >= size(), AsCells(startIndex, count) with
\* startIndex + count > size() and AsCells(startIndex) with startIndex > size()
\* signal an error, and none of them reads a storage out of range.
C7_OutOfRangeSignalled ==
    (\/ last.op = "at" /\ last.n1 >= size
     \/ last.op = "AsCells" /\ last.n1 + last.n2 > size
     \/ last.op = "AsCellsFrom" /\ last.n1 > size)
    => (Signalled(last.status) /\ ~last.oob)

\* C8: ClearColumn(k) with k < size() sets the glyph of column k to the empty
\* default and changes nothing else: not the attribute storage, not another
\* column's glyph, not a width, not the row index.
C8_ClearColumnIsolation ==
    [][(last'.op = "ClearColumn" /\ last'.n1 < rowWidth)
       => /\ last'.status = "ok"
          /\ CharRow_size(charRow') = CharRow_size(charRow)
          /\ last'.n1 < CharRow_size(charRow')
          /\ \A i \in 1..Len(charRow') :
                charRow'[i] = IF i = last'.n1 + 1 THEN DefaultCell ELSE charRow[i]
          /\ attrRow' = attrRow
          /\ rowWidth' = rowWidth
          /\ id' = id]_vars

\* C8 on the rows whose three widths agree.
C8_ClearColumnIsolationOnConsistentRows ==
    [][(last'.op = "ClearColumn" /\ last'.n1 < rowWidth /\ WidthInvariant)
       => /\ last'.status = "ok"
          /\ CharRow_size(charRow') = CharRow_size(charRow)
          /\ \A i \in 1..Len(charRow') :
                charRow'[i] = IF i = last'.n1 + 1 THEN DefaultCell ELSE charRow[i]
          /\ attrRow' = attrRow
          /\ rowWidth' = rowWidth
          /\ id' = id]_vars

Min(a, b) == IF a < b THEN a ELSE b

\* C9: after a successful Resize from width W to width W', AsCells() returns
\* exactly W' cells, and at(c) is the same cell as before the Resize for every
\* column c < min(W, W').
C9_ResizeKeepsPrefix ==
    [][(last'.op = "Resize" /\ last'.status = "S_OK")
       => /\ \A ub \in UBs :
                LET r == AsCells(charRow', attrRow', 0, rowWidth', ub)
                IN  r.status = "ok" /\ Len(r.cells) = rowWidth'
          /\ \A c \in 0..(Min(rowWidth, rowWidth') - 1) :
                /\ at(charRow', attrRow', c).status = "ok"
                /\ at(charRow', attrRow', c) = at(charRow, attrRow, c)]_vars

\* C9 on the rows whose three widths agree.
C9_ResizeKeepsPrefixOnConsistentRows ==
    [][(last'.op = "Resize" /\ last'.status = "S_OK" /\ WidthInvariant)
       => /\ \A ub \in UBs :
                LET r == AsCells(charRow', attrRow', 0, rowWidth', ub)
                IN  r.status = "ok" /\ Len(r.cells) = rowWidth'
          /\ \A c \in 0..(Min(rowWidth, rowWidth') - 1) :
                /\ at(charRow', attrRow', c).status = "ok"
                /\ at(charRow', attrRow', c) = at(charRow, attrRow, c)]_vars

\* C10: in every reachable state, ClearColumn(column) with column >= size()
\* is rejected and changes no glyph, no attribute and no width.
C10_ClearColumnRejectsPastWidth ==
    [][(last'.op = "ClearColumn" /\ last'.n1 >= rowWidth)
       => /\ last'.status = "E_INVALIDARG"
          /\ charRow' = charRow
          /\ attrRow' = attrRow
          /\ rowWidth' = rowWidth]_vars

====
